---- MODULE Spec2Model ----
(***************************************************************************)
(* Model of package signvalidator (huangchunlong818/sign-chao): an engine  *)
(* that renders a parameter mapping as a canonical string, digests it and  *)
(* compares the hex signature with a supplied one.                         *)
(*                                                                         *)
(* A Go string is modelled as the sequence of its bytes, each byte written *)
(* as a one-character TLA+ string; Byte gives its ASCII code.  A Go map is *)
(* an object on a heap of references, so that aliasing and in-place        *)
(* deletion are visible.  The runtime's digest primitives (crypto/md5,     *)
(* crypto/sha1, crypto/sha256, crypto/hmac) are outside the package and    *)
(* are modelled as collision-free functions of their inputs.               *)
(***************************************************************************)
EXTENDS Integers, Sequences, FiniteSets, TLC

(***************************************************************************)
(* Bytes and strings                                                       *)
(***************************************************************************)

\* The printable ASCII characters in code order, 32 (space) to 126 (~).  Code
\* 96, the grave accent, cannot be written in a string literal here; its
\* place is held by a name and no string of the model contains it.
Printable ==
  << " ", "!", "\"", "#", "$", "%", "&", "'", "(", ")", "*", "+", ",", "-", ".", "/",
     "0", "1", "2", "3", "4", "5", "6", "7", "8", "9", ":", ";", "<", "=", ">", "?",
     "@", "A", "B", "C", "D", "E", "F", "G", "H", "I", "J", "K", "L", "M", "N", "O",
     "P", "Q", "R", "S", "T", "U", "V", "W", "X", "Y", "Z", "[", "\\", "]", "^", "_",
     "grave", "a", "b", "c", "d", "e", "f", "g", "h", "i", "j", "k", "l", "m", "n", "o",
     "p", "q", "r", "s", "t", "u", "v", "w", "x", "y", "z", "{", "|", "}", "~" >>

\* The byte value of a character.
Byte(c) == 31 + (CHOOSE i \in 1..Len(Printable) : Printable[i] = c)

\* The Go string with the given characters: the sequence of their bytes.
GoString(chars) == [i \in 1..Len(chars) |-> Byte(chars[i])]

\* Go's < on strings: lexicographic on bytes, a proper prefix first.
RECURSIVE StringLess(_, _)
StringLess(a, b) ==
  IF b = <<>> THEN FALSE
  ELSE IF a = <<>> THEN TRUE
  ELSE IF Head(a) # Head(b) THEN Head(a) < Head(b)
  ELSE StringLess(Tail(a), Tail(b))

\* strings.ToUpper on ASCII text: a..z become A..Z, every other byte is kept.
ToUpper(s) ==
  <<>> \o [i \in 1..Len(s) |-> IF s[i] >= 97 /\ s[i] <= 122 THEN s[i] - 32 ELSE s[i]]

\* strings.ToLower on ASCII text: A..Z become a..z, every other byte is kept.
ToLower(s) ==
  <<>> \o [i \in 1..Len(s) |-> IF s[i] >= 65 /\ s[i] <= 90 THEN s[i] + 32 ELSE s[i]]

\* A digit of hex.EncodeToString, which writes 0..9 and lower-case a..f.
HexDigit(d) == IF d < 10 THEN 48 + d ELSE 87 + d

\* hex.EncodeToString: two digits per byte, high nibble first.
EncodeToString(bs) ==
  <<>> \o [i \in 1..(2 * Len(bs)) |->
             IF i % 2 = 1 THEN HexDigit(bs[(i + 1) \div 2] \div 16)
             ELSE HexDigit(bs[i \div 2] % 16)]

\* The decimal digits of a natural number, no leading zeros.
RECURSIVE Digits(_)
Digits(n) ==
  IF n < 10 THEN << 48 + n >> ELSE Digits(n \div 10) \o << 48 + (n % 10) >>

Minus == GoString(<< "-" >>)
Point == GoString(<< "." >>)
Zero  == GoString(<< "0" >>)

\* fmt.Sprintf("%d", n).
FormatInt(n) == IF n < 0 THEN Minus \o Digits(-n) ELSE Digits(n)

\* The digits ds left-padded with zeros to width w.
RECURSIVE ZeroPad(_, _)
ZeroPad(ds, w) == IF Len(ds) >= w THEN ds ELSE ZeroPad(Zero \o ds, w)

\* fmt.Sprintf("%.6f", f) for the float64 nearest to micro / 10^6: the
\* integer part, a point and exactly six fraction digits.
FormatFloat(micro) ==
  LET abs == IF micro < 0 THEN -micro ELSE micro
  IN  (IF micro < 0 THEN Minus ELSE <<>>)
        \o Digits(abs \div 1000000) \o Point \o ZeroPad(Digits(abs % 1000000), 6)

Quote        == GoString(<< "\"" >>)
Comma        == GoString(<< "," >>)
OpenBracket  == GoString(<< "[" >>)
CloseBracket == GoString(<< "]" >>)

\* json.Marshal of a []string whose elements need no escaping.
RECURSIVE JoinQuoted(_)
JoinQuoted(l) ==
  IF l = <<>> THEN <<>>
  ELSE Quote \o Head(l) \o Quote
         \o (IF Tail(l) = <<>> THEN <<>> ELSE Comma \o JoinQuoted(Tail(l)))

MarshalStrings(l) == OpenBracket \o JoinQuoted(l) \o CloseBracket

(***************************************************************************)
(* Parameter values: interface{} as a tagged variant                       *)
(***************************************************************************)

StringVal(s) == [kind |-> "string",   s |-> s,    n |-> 0, l |-> <<>>]
IntVal(n)    == [kind |-> "int",      s |-> <<>>, n |-> n, l |-> <<>>]
FloatVal(m)  == [kind |-> "float64",  s |-> <<>>, n |-> m, l |-> <<>>]
BoolVal(b)   == [kind |-> "bool",     s |-> <<>>, n |-> IF b THEN 1 ELSE 0, l |-> <<>>]
NilVal       == [kind |-> "nil",      s |-> <<>>, n |-> 0, l |-> <<>>]
ListVal(l)   == [kind |-> "[]string", s |-> <<>>, n |-> 0, l |-> l]

TrueText  == GoString(<< "t", "r", "u", "e" >>)
FalseText == GoString(<< "f", "a", "l", "s", "e" >>)

\* convertToString: the rendering of a parameter value.
convertToString(value) ==
  CASE value.kind = "string"  -> value.s
    [] value.kind = "int"     -> FormatInt(value.n)
    [] value.kind = "float64" -> FormatFloat(value.n)
    [] value.kind = "bool"    -> IF value.n = 1 THEN TrueText ELSE FalseText
    [] value.kind = "nil"     -> <<>>
    [] OTHER                  -> MarshalStrings(value.l)

(***************************************************************************)
(* Configuration and construction                                          *)
(***************************************************************************)

\* The SignAlgorithm constants.
MD5         == "md5"
SHA1        == "sha1"
SHA256      == "sha256"
HMAC_MD5    == "hmac_md5"
HMAC_SHA1   == "hmac_sha1"
HMAC_SHA256 == "hmac_sha256"

\* The six values GenerateSignature's switch has a case for.
Recognized == {MD5, SHA1, SHA256, HMAC_MD5, HMAC_SHA1, HMAC_SHA256}

\* The literal "sign", the default signature parameter name.
DefaultSignatureKey == GoString(<< "s", "i", "g", "n" >>)

\* A Config value.
Config(secret, algorithm, signatureKey, ignoreKeys, upperCase) ==
  [Secret |-> secret, Algorithm |-> algorithm, SignatureKey |-> signatureKey,
   IgnoreKeys |-> ignoreKeys, UpperCase |-> upperCase]

\* NewSignValidator with SHA-256 replaced by MD5 as the default algorithm.
NewSignValidator_DefaultMD5(config) ==
  [config |->
     [config EXCEPT
        !.SignatureKey = IF @ = <<>> THEN DefaultSignatureKey ELSE @,
        !.Algorithm    = IF @ = "" THEN MD5 ELSE @]]

\* NewSignValidator: the engine holding the configuration with its defaults
\* filled in.  It has no failure path.
NewSignValidator(config) ==
  [config |->
     [config EXCEPT
        !.SignatureKey = IF @ = <<>> THEN DefaultSignatureKey ELSE @,
        !.Algorithm    = IF @ = "" THEN SHA256 ELSE @]]

(***************************************************************************)
(* Errors                                                                  *)
(***************************************************************************)

ErrNil                  == [kind |-> "nil", detail |-> ""]
ErrUnsupported(alg)     == [kind |-> "UnsupportedAlgorithm", detail |-> alg]
ErrMissingSignature     == [kind |-> "MissingSignature", detail |-> ""]
ErrInvalidSignatureType == [kind |-> "InvalidSignatureType", detail |-> ""]

(***************************************************************************)
(* Maps on the heap                                                        *)
(***************************************************************************)

\* A map value with no entry; also the content of a reference not in use.
EmptyMap == << >>

\* The map m with key k bound to value x.
Put(m, k, x) == [j \in (DOMAIN m) \cup {k} |-> IF j = k THEN x ELSE m[j]]

\* The map m without key k; unchanged when k is absent.
Without(m, k) == [j \in (DOMAIN m) \ {k} |-> m[j]]

\* The builtin delete(m, key) on the map object that reference r names.
delete(h, r, key) == [h EXCEPT ![r] = Without(@, key)]

\* The loop stops after its first key.
deleteAll_FirstOnly(h, r, keys) ==
  IF keys = <<>> THEN h ELSE delete(h, r, Head(keys))

\* The range loop over IgnoreKeys deleting each key from the map object r.
RECURSIVE deleteAll(_, _, _)
deleteAll(h, r, keys) ==
  IF keys = <<>> THEN h ELSE deleteAll(delete(h, r, Head(keys)), r, Tail(keys))

\* The working map is the caller's own map object: no copy is made.
CopyParams_Alias(h, params, fresh) == [heap |-> h, paramsCopy |-> params]

\* paramsCopy := make(...) followed by the copying range loop: a fresh map
\* object with the entries of the caller's map.
CopyParams(h, params, fresh) ==
  [heap |-> [h EXCEPT ![fresh] = h[params]], paramsCopy |-> fresh]

\* Only the ignored keys are deleted; the signature key is kept.
RemoveExcluded_KeepSignatureKey(config, h, r) == deleteAll(h, r, config.IgnoreKeys)

\* The signature key and every ignored key are deleted from the working map.
RemoveExcluded(config, h, r) ==
  deleteAll(delete(h, r, config.SignatureKey), r, config.IgnoreKeys)

\* The orders in which a range loop may visit the keys of a set: Go leaves
\* the iteration order of a map unspecified.
Orders(S) ==
  {o \in [1..Cardinality(S) -> S] : \A i, j \in DOMAIN o : i # j => o[i] # o[j]}

(***************************************************************************)
(* Sorting and the string to sign                                          *)
(***************************************************************************)

Ampersand  == GoString(<< "&" >>)
EqualsSign == GoString(<< "=" >>)
KeySegment == GoString(<< "&", "k", "e", "y", "=" >>)

\* One insertion step of the sort: k placed before the first greater key.
RECURSIVE Insert(_, _)
Insert(k, sorted) ==
  IF sorted = <<>> THEN << k >>
  ELSE IF StringLess(k, Head(sorted)) THEN << k >> \o sorted
  ELSE << Head(sorted) >> \o Insert(k, Tail(sorted))

\* The keys are left in the order the range loop produced them.
SortStrings_Unsorted(keys) == keys

\* sort.Strings: the keys in ascending byte order.
RECURSIVE SortStrings(_)
SortStrings(keys) ==
  IF keys = <<>> THEN <<>> ELSE Insert(Head(keys), SortStrings(Tail(keys)))

\* m[key] in Go: the entry's value, or nil when the key has no entry.
Lookup(m, key) == IF key \in DOMAIN m THEN m[key] ELSE NilVal

\* The builder loop: key=value pairs, an & before every pair but the first.
RECURSIVE WritePairs(_, _, _)
WritePairs(m, keys, i) ==
  IF i > Len(keys) THEN <<>>
  ELSE (IF i > 1 THEN Ampersand ELSE <<>>)
         \o keys[i] \o EqualsSign \o convertToString(Lookup(m, keys[i]))
         \o WritePairs(m, keys, i + 1)

\* The segment &key=<secret>, written when the secret is not empty.
WriteSecret(config) ==
  IF config.Secret # <<>> THEN KeySegment \o config.Secret
  ELSE <<>>

\* stringToSign: the pairs of the working map in the order of keys, then the
\* secret segment.
StringToSign(config, m, keys) == WritePairs(m, keys, 1) \o WriteSecret(config)

(***************************************************************************)
(* Digests                                                                 *)
(***************************************************************************)

\* The digest size in bytes of the hash behind a constructor.
Size(h) == CASE h = "md5" -> 16 [] h = "sha1" -> 20 [] h = "sha256" -> 32

\* calculateHash: h.Write then h.Sum.  The digest is modelled without
\* collisions: the hash's size byte followed by the data.  Write on a
\* hash.Hash never returns an error.
calculateHash(h, data) ==
  [bytes |-> << Size(h) >> \o data, err |-> ErrNil]

\* calculateHMAC: hmac.New(hashFunc, key), Write, Sum.  Modelled without
\* collisions: a keyed tag, the key length, the key and the data.
calculateHMAC(hashFunc, key, data) ==
  [bytes |-> << 128 + Size(hashFunc), Len(key) >> \o key \o data,
   err   |-> ErrNil]

\* An unknown algorithm falls back to SHA-256 instead of failing.
Dispatch_FallbackSHA256(config, stringToSign) ==
  CASE config.Algorithm = MD5         -> calculateHash("md5", stringToSign)
    [] config.Algorithm = SHA1        -> calculateHash("sha1", stringToSign)
    [] config.Algorithm = HMAC_MD5    -> calculateHMAC("md5", config.Secret, stringToSign)
    [] config.Algorithm = HMAC_SHA1   -> calculateHMAC("sha1", config.Secret, stringToSign)
    [] config.Algorithm = HMAC_SHA256 -> calculateHMAC("sha256", config.Secret, stringToSign)
    [] OTHER                          -> calculateHash("sha256", stringToSign)

\* The switch on the configured algorithm: the digest bytes, or the
\* unsupported-algorithm error of the default branch.
Dispatch(config, stringToSign) ==
  CASE config.Algorithm = MD5         -> calculateHash("md5", stringToSign)
    [] config.Algorithm = SHA1        -> calculateHash("sha1", stringToSign)
    [] config.Algorithm = SHA256      -> calculateHash("sha256", stringToSign)
    [] config.Algorithm = HMAC_MD5    -> calculateHMAC("md5", config.Secret, stringToSign)
    [] config.Algorithm = HMAC_SHA1   -> calculateHMAC("sha1", config.Secret, stringToSign)
    [] config.Algorithm = HMAC_SHA256 -> calculateHMAC("sha256", config.Secret, stringToSign)
    [] OTHER -> [bytes |-> <<>>, err |-> ErrUnsupported(config.Algorithm)]

\* Hex encoding, then upper or lower case as configured.
Encode(config, signBytes) ==
  IF config.UpperCase THEN ToUpper(EncodeToString(signBytes))
  ELSE ToLower(EncodeToString(signBytes))

(***************************************************************************)
(* The three operations                                                    *)
(*                                                                         *)
(* Each takes the engine v, the heap h, the reference params of the        *)
(* caller's map, the reference fresh that make() returns for the working   *)
(* map, and iter, the order in which the range loop visits the keys of the *)
(* working map.  Each returns its Go results and the heap it leaves;       *)
(* stringToSign is reported beside them for the properties below.          *)
(***************************************************************************)

\* The orders the key-collecting range loop may produce in a call.
RangeOrders(v, h, params, fresh) ==
  LET c == CopyParams(h, params, fresh)
  IN  Orders(DOMAIN RemoveExcluded(v.config, c.heap, c.paramsCopy)[c.paramsCopy])

\* GenerateSignature.
GenerateSignature(v, h, params, fresh, iter) ==
  LET c            == CopyParams(h, params, fresh)
      h2           == RemoveExcluded(v.config, c.heap, c.paramsCopy)
      keys         == SortStrings(iter)
      stringToSign == StringToSign(v.config, h2[c.paramsCopy], keys)
      d            == Dispatch(v.config, stringToSign)
  IN  IF d.err # ErrNil
      THEN [signature |-> <<>>, err |-> d.err, heap |-> h2,
            stringToSign |-> stringToSign]
      ELSE [signature |-> Encode(v.config, d.bytes), err |-> ErrNil, heap |-> h2,
            stringToSign |-> stringToSign]

\* The comparison ignores letter case.
SignatureEqual_Fold(expectedSign, signature) == ToLower(expectedSign) = ToLower(signature)

\* expectedSign == signature: Go's string equality.
SignatureEqual(expectedSign, signature) == expectedSign = signature

\* Validate.
Validate(v, h, params, fresh, signature, iter) ==
  LET g == GenerateSignature(v, h, params, fresh, iter)
  IN  IF g.err # ErrNil
      THEN [ok |-> FALSE, err |-> g.err, heap |-> g.heap,
            stringToSign |-> g.stringToSign]
      ELSE [ok |-> SignatureEqual(g.signature, signature), err |-> ErrNil,
            heap |-> g.heap, stringToSign |-> g.stringToSign]

\* The signature entry is rendered with convertToString instead of being
\* required to be a string.
SignatureField_Coerce(m, key) ==
  IF key \notin DOMAIN m THEN [err |-> ErrMissingSignature, signature |-> <<>>]
  ELSE [err |-> ErrNil, signature |-> convertToString(m[key])]

\* The lookup and type assertion at the head of ValidateWithSignInParams.
SignatureField(m, key) ==
  IF key \notin DOMAIN m THEN [err |-> ErrMissingSignature, signature |-> <<>>]
  ELSE IF m[key].kind # "string"
       THEN [err |-> ErrInvalidSignatureType, signature |-> <<>>]
  ELSE [err |-> ErrNil, signature |-> m[key].s]

\* ValidateWithSignInParams.
ValidateWithSignInParams(v, h, params, fresh, iter) ==
  LET f == SignatureField(h[params], v.config.SignatureKey)
  IN  IF f.err # ErrNil
      THEN [ok |-> FALSE, err |-> f.err, heap |-> h, stringToSign |-> <<>>]
      ELSE Validate(v, h, params, fresh, f.signature, iter)

(***************************************************************************)
(* Inputs                                                                  *)
(***************************************************************************)

\* Caller edits of a signed mapping that a run may make.
MaxEdits == 1

\* Threads calling one engine concurrently.
NumThreads == 2

\* Parameter names: two that sort by prefix, one upper-case name that byte
\* order puts first, and the default signature name.
KeyA    == GoString(<< "a" >>)
KeyAB   == GoString(<< "a", "b" >>)
KeyB    == GoString(<< "B" >>)
KeyNone == GoString(<< "z", "z" >>)
Keys    == {KeyA, KeyAB, KeyB, DefaultSignatureKey}

\* A map given by its entries <<key, value>>.
MapOf(entries) ==
  [k \in {e[1] : e \in entries} |-> (CHOOSE e \in entries : e[1] = k)[2]]

\* The parameters of the package's tests: id 123, name "test", amount 100.50.
TestParams ==
  MapOf({ << GoString(<< "i", "d" >>), IntVal(123) >>,
          << GoString(<< "n", "a", "m", "e" >>), StringVal(GoString(<< "t", "e", "s", "t" >>)) >>,
          << GoString(<< "a", "m", "o", "u", "n", "t" >>), FloatVal(100500000) >> })

\* A mapping with every name present and a stale signature entry.
FullParams ==
  MapOf({ << KeyA, StringVal(GoString(<< "1" >>)) >>, << KeyAB, IntVal(-12) >>,
          << KeyB, FloatVal(1500000) >>,
          << DefaultSignatureKey, StringVal(GoString(<< "o", "l", "d" >>)) >> })

\* A mapping whose one value holds the text of a second pair.
InjectionParams ==
  MapOf({ << KeyA, StringVal(GoString(<< "x", "&", "a", "b", "=", "1" >>)) >> })

\* A mapping with a nil value, a boolean and a signature entry that is no
\* string.
MixedParams ==
  MapOf({ << KeyA, NilVal >>, << KeyB, BoolVal(TRUE) >>,
          << DefaultSignatureKey, IntVal(5) >> })

\* A mapping with a list value, an empty string and a nil signature entry.
ListParams ==
  MapOf({ << KeyAB, ListVal(<< GoString(<< "a" >>), GoString(<< "b" >>) >>) >>,
          << KeyB, StringVal(<<>>) >>, << DefaultSignatureKey, NilVal >> })

\* Parameter mappings a caller starts with: every value kind occurs, and
\* every name occurs both present and absent.
Fixtures ==
  { EmptyMap, TestParams, FullParams, InjectionParams, MixedParams, ListParams }

\* Values a caller may write into a mapping.
EditValues == { StringVal(GoString(<< "1" >>)), IntVal(1), NilVal }

\* Configurations handed to NewSignValidator.
Secrets        == { <<>>, GoString(<< "s", "k" >>) }
Algorithms     == Recognized \cup { "", "crc32" }
SignatureKeys  == { <<>>, KeyB }
IgnoreKeyLists == { <<>>, << KeyNone, KeyAB >> }

Configs ==
  { Config(s, a, k, i, u) :
      s \in Secrets, a \in Algorithms, k \in SignatureKeys,
      i \in IgnoreKeyLists, u \in BOOLEAN }

(***************************************************************************)
(* State                                                                   *)
(***************************************************************************)

VARIABLES
  input,    \* the Config given to NewSignValidator
  v,        \* the engine NewSignValidator returned
  heap,     \* the map objects: reference -> map value
  signed,   \* the signature the caller holds and the mapping it was made from
  out,      \* the results of the caller's last call
  edits,    \* caller edits made so far
  pc,       \* per thread: where its call stands
  call,     \* per thread: the operation called and its signature argument
  loc,      \* per thread: the locals of GenerateSignature
  result    \* per thread: the results of the call

vars == << input, v, heap, signed, out, edits, pc, call, loc, result >>

Threads == 1..NumThreads

\* The sequential caller is caller 0; thread t is caller t.
ParamsRef(t) == << "params", t >>
Refs == { << n, t >> : n \in {"params", "paramsCopy"}, t \in 0..NumThreads }

\* Every call writes its working map into one buffer shared by all calls.
WorkRef_Shared(t) == << "paramsCopy", 0 >>

\* The reference make() returns in caller t's call: a new object per call.
WorkRef(t) == << "paramsCopy", t >>

\* The working map of a finished call is garbage.
Release(h, r) == [h EXCEPT ![r] = EmptyMap]

NoSignature ==
  [has |-> FALSE, sig |-> <<>>, params |-> EmptyMap, stringToSign |-> <<>>]
NoOut ==
  [op |-> "none", arg |-> <<>>, signature |-> <<>>, ok |-> FALSE, err |-> ErrNil,
   stringToSign |-> <<>>, before |-> EmptyMap]

IdleCall   == [op |-> "none", arg |-> <<>>]
NilRef     == << "nil", 0 >>
IdleLoc    == [paramsCopy |-> NilRef, keys |-> <<>>, stringToSign |-> <<>>]
IdleResult == [signature |-> <<>>, ok |-> FALSE, err |-> ErrNil]

\* The caller's mapping.
Params == heap[ParamsRef(0)]

ThreadsIdle ==
  /\ pc = [t \in Threads |-> "idle"]
  /\ call = [t \in Threads |-> IdleCall]
  /\ loc = [t \in Threads |-> IdleLoc]
  /\ result = [t \in Threads |-> IdleResult]

\* One caller, an engine built from cfg, the mapping m.
InitWith(cfgs, maps) ==
  /\ input \in cfgs
  /\ v = NewSignValidator(input)
  /\ \E m \in maps :
       heap = [r \in Refs |-> IF r = ParamsRef(0) THEN m ELSE EmptyMap]
  /\ signed = NoSignature
  /\ out = NoOut
  /\ edits = 0
  /\ ThreadsIdle

Init == InitWith(Configs, Fixtures)

(***************************************************************************)
(* The caller's calls, each a whole call                                   *)
(***************************************************************************)

threadVars == << pc, call, loc, result >>

\* signature, err := validator.GenerateSignature(params).
CallGenerateSignature ==
  \E iter \in RangeOrders(v, heap, ParamsRef(0), WorkRef(0)) :
    LET r == GenerateSignature(v, heap, ParamsRef(0), WorkRef(0), iter)
    IN  /\ out' = [op |-> "GenerateSignature", arg |-> <<>>,
                   signature |-> r.signature, ok |-> FALSE, err |-> r.err,
                   stringToSign |-> r.stringToSign, before |-> Params]
        /\ heap' = Release(r.heap, WorkRef(0))
        /\ UNCHANGED << input, v, signed, edits, threadVars >>

\* The caller keeps the signature a call returned without an error, and
\* remembers the mapping it signed.
KeepSignature ==
  /\ out.op = "GenerateSignature"
  /\ out.err = ErrNil
  /\ signed' = [has |-> TRUE, sig |-> out.signature, params |-> out.before,
                stringToSign |-> out.stringToSign]
  /\ UNCHANGED << input, v, heap, out, edits, threadVars >>

\* The other case of every letter of s that has one.
SwapCase(s) == IF ToUpper(s) # s THEN ToUpper(s) ELSE ToLower(s)

\* s with its last character replaced by another hex digit.
FlipLast(s) ==
  IF s = <<>> THEN Zero
  ELSE SubSeq(s, 1, Len(s) - 1) \o << IF s[Len(s)] = 48 THEN 49 ELSE 48 >>

Invalid == GoString(<< "i", "n", "v", "a", "l", "i", "d" >>)

\* Signatures a caller may present: the one it holds, and that one in the
\* other letter case, with characters appended, with a character changed;
\* the empty string.
Candidates ==
  IF signed.has
  THEN { signed.sig, SwapCase(signed.sig), signed.sig \o Invalid,
         FlipLast(signed.sig), <<>> }
  ELSE { <<>>, Zero }

\* valid, err := validator.Validate(params, signature).
CallValidate ==
  \E signature \in Candidates :
    \E iter \in RangeOrders(v, heap, ParamsRef(0), WorkRef(0)) :
      LET r == Validate(v, heap, ParamsRef(0), WorkRef(0), signature, iter)
      IN  /\ out' = [op |-> "Validate", arg |-> signature, signature |-> <<>>,
                     ok |-> r.ok, err |-> r.err,
                     stringToSign |-> r.stringToSign, before |-> Params]
          /\ heap' = Release(r.heap, WorkRef(0))
          /\ UNCHANGED << input, v, signed, edits, threadVars >>

\* valid, err := validator.ValidateWithSignInParams(params).
CallValidateWithSignInParams ==
  \E iter \in RangeOrders(v, heap, ParamsRef(0), WorkRef(0)) :
    LET r == ValidateWithSignInParams(v, heap, ParamsRef(0), WorkRef(0), iter)
    IN  /\ out' = [op |-> "ValidateWithSignInParams", arg |-> <<>>,
                   signature |-> <<>>, ok |-> r.ok, err |-> r.err,
                   stringToSign |-> r.stringToSign, before |-> Params]
        /\ heap' = Release(r.heap, WorkRef(0))
        /\ UNCHANGED << input, v, signed, edits, threadVars >>

\* params[signatureKey] = signature: the caller stores the signature it
\* holds under the signature parameter name.
StoreSignature ==
  /\ signed.has
  /\ heap' = [heap EXCEPT ![ParamsRef(0)] =
                Put(@, v.config.SignatureKey, StringVal(signed.sig))]
  /\ out' = NoOut
  /\ UNCHANGED << input, v, signed, edits, threadVars >>

\* params[k] = x: the caller writes an entry.
SetParam ==
  /\ edits < MaxEdits
  /\ \E k \in Keys, x \in EditValues :
       heap' = [heap EXCEPT ![ParamsRef(0)] = Put(@, k, x)]
  /\ edits' = edits + 1
  /\ out' = NoOut
  /\ UNCHANGED << input, v, signed, threadVars >>

\* delete(params, k): the caller removes an entry.
DeleteParam ==
  /\ edits < MaxEdits
  /\ \E k \in Keys : k \in DOMAIN Params /\ heap' = delete(heap, ParamsRef(0), k)
  /\ edits' = edits + 1
  /\ out' = NoOut
  /\ UNCHANGED << input, v, signed, threadVars >>

Calls ==
  \/ CallGenerateSignature
  \/ KeepSignature
  \/ CallValidate
  \/ CallValidateWithSignInParams
  \/ StoreSignature

Next == Calls

\* One caller using the three operations on a mapping, for every
\* configuration.
Spec == Init /\ [][Next]_vars

\* Configurations and mappings of the runs in which the caller edits its
\* mapping between signing and validating.
TamperConfigs ==
  { Config(GoString(<< "s", "k" >>), a, k, i, FALSE) :
      a \in {SHA1, HMAC_SHA256}, k \in SignatureKeys, i \in IgnoreKeyLists }

TamperFixtures == { FullParams, MixedParams }

InitTamper == InitWith(TamperConfigs, TamperFixtures)

NextTamper ==
  \/ CallGenerateSignature
  \/ KeepSignature
  \/ CallValidate
  \/ SetParam
  \/ DeleteParam

\* One caller that signs a mapping, edits it and validates it.
SpecTamper == InitTamper /\ [][NextTamper]_vars

(***************************************************************************)
(* Threads sharing one engine                                              *)
(*                                                                         *)
(* A call of thread t runs in steps, one per block of GenerateSignature,   *)
(* and the steps of different threads interleave.  Each thread holds its   *)
(* own parameter map, which arrives with or without a signature entry made *)
(* by a sender that uses the same configuration.                           *)
(***************************************************************************)

ConcConfigs ==
  { Config(GoString(<< "s", "k" >>), MD5, <<>>, <<>>, TRUE),
    Config(<<>>, HMAC_SHA256, KeyB, << KeyNone, KeyAB >>, FALSE),
    Config(GoString(<< "s", "k" >>), "crc32", <<>>, << KeyAB >>, FALSE),
    Config(GoString(<< "s", "k" >>), "", <<>>, <<>>, FALSE) }

\* The mapping m as a sender with engine e sends it: with the signature of m
\* stored under the signature parameter name when e can sign.
Signed(e, m) ==
  LET h == [r \in Refs |-> IF r = ParamsRef(0) THEN m ELSE EmptyMap]
      g == GenerateSignature(e, h, ParamsRef(0), << "paramsCopy", 0 >>,
                             CHOOSE o \in RangeOrders(e, h, ParamsRef(0), << "paramsCopy", 0 >>) : TRUE)
  IN  IF g.err = ErrNil THEN Put(m, e.config.SignatureKey, StringVal(g.signature))
      ELSE m

\* The mappings a thread may hold under engine e.
ThreadParams(e) == { Signed(e, FullParams), MixedParams }

InitConc ==
  /\ input \in ConcConfigs
  /\ v = NewSignValidator(input)
  /\ \E ms \in [Threads -> ThreadParams(NewSignValidator(input))] :
       heap = [r \in Refs |->
                 IF r[1] = "params" /\ r[2] \in Threads THEN ms[r[2]] ELSE EmptyMap]
  /\ signed = NoSignature
  /\ out = NoOut
  /\ edits = 0
  /\ ThreadsIdle

callerVars == << signed, out, edits >>

\* Thread t calls an operation.  Validate is given the signature entry of the
\* thread's mapping, or "0" when there is no such string.  The head of
\* ValidateWithSignInParams runs here and may return at once.
Enter(t) ==
  /\ pc[t] = "idle"
  /\ LET f == SignatureField(heap[ParamsRef(t)], v.config.SignatureKey)
     IN  \/ /\ call' = [call EXCEPT ![t] = [op |-> "GenerateSignature", arg |-> <<>>]]
            /\ pc' = [pc EXCEPT ![t] = "entered"]
            /\ UNCHANGED result
         \/ /\ call' = [call EXCEPT ![t] =
                          [op |-> "Validate",
                           arg |-> IF f.err = ErrNil THEN f.signature ELSE Zero]]
            /\ pc' = [pc EXCEPT ![t] = "entered"]
            /\ UNCHANGED result
         \/ /\ f.err = ErrNil
            /\ call' = [call EXCEPT ![t] =
                          [op |-> "ValidateWithSignInParams", arg |-> f.signature]]
            /\ pc' = [pc EXCEPT ![t] = "entered"]
            /\ UNCHANGED result
         \/ /\ f.err # ErrNil
            /\ call' = [call EXCEPT ![t] =
                          [op |-> "ValidateWithSignInParams", arg |-> <<>>]]
            /\ result' = [result EXCEPT ![t] =
                            [signature |-> <<>>, ok |-> FALSE, err |-> f.err]]
            /\ pc' = [pc EXCEPT ![t] = "returned"]
  /\ UNCHANGED << input, v, heap, loc, callerVars >>

\* The working map is made and filled from the thread's mapping.
Copy(t) ==
  /\ pc[t] = "entered"
  /\ LET c == CopyParams(heap, ParamsRef(t), WorkRef(t))
     IN  /\ heap' = c.heap
         /\ loc' = [loc EXCEPT ![t].paramsCopy = c.paramsCopy]
  /\ pc' = [pc EXCEPT ![t] = "copied"]
  /\ UNCHANGED << input, v, call, result, callerVars >>

\* The signature key and the ignored keys are deleted from the working map.
Filter(t) ==
  /\ pc[t] = "copied"
  /\ heap' = RemoveExcluded(v.config, heap, loc[t].paramsCopy)
  /\ pc' = [pc EXCEPT ![t] = "filtered"]
  /\ UNCHANGED << input, v, call, loc, result, callerVars >>

\* The keys of the working map are collected in some order and sorted.
Sort(t) ==
  /\ pc[t] = "filtered"
  /\ \E iter \in Orders(DOMAIN heap[loc[t].paramsCopy]) :
       loc' = [loc EXCEPT ![t].keys = SortStrings(iter)]
  /\ pc' = [pc EXCEPT ![t] = "sorted"]
  /\ UNCHANGED << input, v, heap, call, result, callerVars >>

\* The string to sign is built from the working map.
Build(t) ==
  /\ pc[t] = "sorted"
  /\ loc' = [loc EXCEPT ![t].stringToSign =
               StringToSign(v.config, heap[loc[t].paramsCopy], loc[t].keys)]
  /\ pc' = [pc EXCEPT ![t] = "built"]
  /\ UNCHANGED << input, v, heap, call, result, callerVars >>

\* The digest, its encoding, and for the validating operations the
\* comparison with the signature given.
Finish(t) ==
  /\ pc[t] = "built"
  /\ LET d   == Dispatch(v.config, loc[t].stringToSign)
         sig == IF d.err # ErrNil THEN <<>> ELSE Encode(v.config, d.bytes)
     IN  result' = [result EXCEPT ![t] =
           IF call[t].op = "GenerateSignature"
           THEN [signature |-> sig, ok |-> FALSE, err |-> d.err]
           ELSE IF d.err # ErrNil
           THEN [signature |-> <<>>, ok |-> FALSE, err |-> d.err]
           ELSE [signature |-> <<>>, ok |-> SignatureEqual(sig, call[t].arg),
                 err |-> ErrNil]]
  /\ pc' = [pc EXCEPT ![t] = "returned"]
  /\ UNCHANGED << input, v, heap, call, loc, callerVars >>

\* The thread takes the results; the locals and the working map are gone.
Return(t) ==
  /\ pc[t] = "returned"
  /\ pc' = [pc EXCEPT ![t] = "idle"]
  /\ call' = [call EXCEPT ![t] = IdleCall]
  /\ loc' = [loc EXCEPT ![t] = IdleLoc]
  /\ result' = [result EXCEPT ![t] = IdleResult]
  /\ heap' = Release(heap, WorkRef(t))
  /\ UNCHANGED << input, v, callerVars >>

NextConc ==
  \E t \in Threads :
    \/ Enter(t)
    \/ Copy(t)
    \/ Filter(t)
    \/ Sort(t)
    \/ Build(t)
    \/ Finish(t)
    \/ Return(t)

\* Several threads calling one engine, their steps interleaved.
SpecConc == InitConc /\ [][NextConc]_vars

(***************************************************************************)
(* Properties                                                              *)
(***************************************************************************)

\* The elements of a sequence.
Range(q) == { q[i] : i \in DOMAIN q }

\* The parameter names a configuration keeps out of the signature.
Excluded(config) == { config.SignatureKey } \cup Range(config.IgnoreKeys)

\* The elements of S, each once, in ascending byte order.
Ascending(S) ==
  CHOOSE o \in Orders(S) : \A i \in 1..(Len(o) - 1) : StringLess(o[i], o[i + 1])

\* The texts key=value of the keys ks, joined by single & signs.
RECURSIVE Joined(_, _)
Joined(m, ks) ==
  IF ks = <<>> THEN <<>>
  ELSE Head(ks) \o EqualsSign \o convertToString(m[Head(ks)])
         \o (IF Tail(ks) = <<>> THEN <<>> ELSE Ampersand \o Joined(m, Tail(ks)))

\* The canonical string of mapping m: the pairs of the keys outside excluded
\* in ascending order, then &key=<secret> when the secret is not empty.
Canonical(m, excluded, secret) ==
  Joined(m, Ascending((DOMAIN m) \ excluded))
    \o (IF secret = <<>> THEN <<>> ELSE KeySegment \o secret)

\* Whether a call got as far as building its string to sign.
Built ==
  /\ out.op # "none"
  /\ out.err.kind \notin {"MissingSignature", "InvalidSignatureType"}

\* Some order the range loop may produce on the caller's mapping.
AnyOrder == CHOOSE o \in RangeOrders(v, heap, ParamsRef(0), WorkRef(0)) : TRUE

\* What GenerateSignature returns on the caller's mapping.
Generated == GenerateSignature(v, heap, ParamsRef(0), WorkRef(0), AnyOrder)

\* Two mappings with the same entries under every key outside X.
Agree(m1, m2, X) ==
  /\ (DOMAIN m1) \ X = (DOMAIN m2) \ X
  /\ \A k \in (DOMAIN m1) \ X : m1[k] = m2[k]

\* C1: round trip.  Under a recognized algorithm, validating a mapping
\* against the signature generated from that very mapping returns true
\* without an error; and so does ValidateWithSignInParams on the mapping with
\* that signature stored under the signature parameter name, replacing
\* whatever entry was there.
C1_RoundTrip ==
  (signed.has /\ v.config.Algorithm \in Recognized) =>
    /\ (out.op = "Validate" /\ out.arg = signed.sig /\ out.before = signed.params)
         => (out.ok /\ out.err = ErrNil)
    /\ (/\ out.op = "ValidateWithSignInParams"
        /\ out.before = Put(signed.params, v.config.SignatureKey, StringVal(signed.sig)))
         => (out.ok /\ out.err = ErrNil)

\* The signature was stored over an older signature entry and validated
\* from inside the mapping, under HMAC-SHA256 with upper-case output.
C1_Witness ==
  /\ signed.has
  /\ v.config.Algorithm = HMAC_SHA256
  /\ v.config.UpperCase
  /\ v.config.SignatureKey \in DOMAIN signed.params
  /\ out.op = "ValidateWithSignInParams"
  /\ out.before = Put(signed.params, v.config.SignatureKey, StringVal(signed.sig))
  /\ out.before # signed.params
  /\ out.ok

\* C4: under a recognized algorithm Validate returns no error, and returns
\* true exactly when the signature given equals, character for character,
\* the one GenerateSignature returns for the mapping.
C4_ExactMatch ==
  (out.op = "Validate" /\ v.config.Algorithm \in Recognized) =>
    /\ out.err = ErrNil
    /\ out.ok <=> (out.arg = Generated.signature)

\* The held signature in the other letter case was presented and refused.
C4_Witness ==
  /\ signed.has
  /\ out.op = "Validate"
  /\ out.before = signed.params
  /\ out.arg = SwapCase(signed.sig)
  /\ out.arg # signed.sig
  /\ ~out.ok
  /\ out.err = ErrNil

\* C5: the string a call digests is the canonical string of the mapping it
\* was given: the pairs of the keys that are neither the signature key nor
\* ignored, ascending, joined by &, then &key=<secret> exactly when the
\* secret is not empty, whatever the algorithm and whatever the order in
\* which the keys were visited.
C5_CanonicalFormat ==
  Built => out.stringToSign = Canonical(out.before, Excluded(v.config), v.config.Secret)

\* A call under an HMAC algorithm with a secret digested a string of three
\* pairs.
C5_Witness ==
  /\ out.op = "GenerateSignature"
  /\ out.err = ErrNil
  /\ v.config.Algorithm \in {HMAC_MD5, HMAC_SHA1, HMAC_SHA256}
  /\ v.config.Secret # <<>>
  /\ Cardinality((DOMAIN out.before) \ Excluded(v.config)) = 3

C2_ExcludedKeysIgnored ==
  (signed.has /\ Agree(signed.params, out.before, Excluded(v.config))) =>
    /\ out.op = "GenerateSignature" =>
         (out.err = ErrNil /\ out.signature = signed.sig)
    /\ out.op = "Validate" =>
         (out.err = ErrNil /\ (out.ok <=> out.arg = signed.sig))

\* After signing, the caller changed an ignored key that is listed after an
\* ignored key the mapping never had, and the held signature validated.
C2_Witness ==
  /\ signed.has
  /\ v.config.IgnoreKeys = << KeyNone, KeyAB >>
  /\ out.op = "Validate"
  /\ out.arg = signed.sig
  /\ out.before # signed.params
  /\ Agree(signed.params, out.before, Excluded(v.config))
  /\ KeyAB \in DOMAIN out.before
  /\ KeyAB \in DOMAIN signed.params
  /\ out.ok
  /\ out.err = ErrNil

\* C3: tampering is detected.  When the mapping now differs from the mapping
\* that was signed under a key that is neither the signature key nor
\* ignored, the string digested differs from the one digested at signing and
\* Validate refuses the signature held.
C3_TamperDetected ==
  (/\ signed.has
   /\ out.op = "Validate"
   /\ out.arg = signed.sig
   /\ ~Agree(signed.params, out.before, Excluded(v.config)))
    => (out.stringToSign # signed.stringToSign /\ ~out.ok)

\* C6: an engine built with an algorithm outside the six recognized ones
\* exists and keeps that value; GenerateSignature on it returns the
\* unsupported-algorithm error with the empty string, and Validate returns
\* false with that error.  Under a recognized algorithm GenerateSignature
\* does not return that error.
C6_UnsupportedAlgorithm ==
  /\ (input.Algorithm \notin Recognized \cup {""}) =>
       /\ v.config.Algorithm = input.Algorithm
       /\ out.op = "GenerateSignature" =>
            (out.err = ErrUnsupported(input.Algorithm) /\ out.signature = <<>>)
       /\ out.op = "Validate" =>
            (out.err = ErrUnsupported(input.Algorithm) /\ ~out.ok)
  /\ (v.config.Algorithm \in Recognized /\ out.op = "GenerateSignature") =>
       out.err.kind # "UnsupportedAlgorithm"

\* Validate was called on an engine with an unsupported algorithm and a
\* mapping that has signable entries.
C6_Witness ==
  /\ input.Algorithm = "crc32"
  /\ out.op = "Validate"
  /\ out.err.kind = "UnsupportedAlgorithm"
  /\ (DOMAIN out.before) \ Excluded(v.config) # {}

\* C7: ValidateWithSignInParams returns false with MissingSignature when the
\* mapping has no entry under the signature parameter name, false with
\* InvalidSignatureType when the entry is not a string, nil included, and
\* otherwise what Validate returns for the mapping and that entry; the two
\* errors come whatever the algorithm is.
C7_SignInParams ==
  out.op = "ValidateWithSignInParams" =>
    LET m == out.before
        k == v.config.SignatureKey
    IN  /\ k \notin DOMAIN m => (~out.ok /\ out.err = ErrMissingSignature)
        /\ (k \in DOMAIN m /\ m[k].kind # "string") =>
             (~out.ok /\ out.err = ErrInvalidSignatureType)
        /\ (k \in DOMAIN m /\ m[k].kind = "string") =>
             LET r == Validate(v, heap, ParamsRef(0), WorkRef(0), m[k].s, AnyOrder)
             IN  out.ok = r.ok /\ out.err = r.err

\* The signature entry was nil on an engine whose algorithm is unsupported.
C7_Witness ==
  /\ out.op = "ValidateWithSignInParams"
  /\ v.config.SignatureKey \in DOMAIN out.before
  /\ out.before[v.config.SignatureKey].kind = "nil"
  /\ v.config.Algorithm \notin Recognized
  /\ out.err = ErrInvalidSignatureType

\* C8: a call leaves the caller's mapping as it found it: the same keys
\* with the same values, the signature entry and the ignored entries
\* included.
C8_ParamsNotMutated ==
  out.op # "none" => Params = out.before

\* A call that ended with an error was given a mapping that holds both the
\* signature key and an ignored key.
C8_Witness ==
  /\ out.op = "Validate"
  /\ out.err.kind = "UnsupportedAlgorithm"
  /\ v.config.SignatureKey \in DOMAIN Params
  /\ Range(v.config.IgnoreKeys) \cap DOMAIN Params # {}

\* What thread t's call returns when it runs with no other call under way.
Alone(t) ==
  LET iter == CHOOSE o \in RangeOrders(v, heap, ParamsRef(t), WorkRef(t)) : TRUE
  IN  CASE call[t].op = "GenerateSignature" ->
             LET r == GenerateSignature(v, heap, ParamsRef(t), WorkRef(t), iter)
             IN  [signature |-> r.signature, ok |-> FALSE, err |-> r.err]
        [] call[t].op = "Validate" ->
             LET r == Validate(v, heap, ParamsRef(t), WorkRef(t), call[t].arg, iter)
             IN  [signature |-> <<>>, ok |-> r.ok, err |-> r.err]
        [] OTHER ->
             LET r == ValidateWithSignInParams(v, heap, ParamsRef(t), WorkRef(t), iter)
             IN  [signature |-> <<>>, ok |-> r.ok, err |-> r.err]

\* C9: under every interleaving of the threads' calls the engine's
\* configuration stays the one resolved at construction, and a call that has
\* returned has the results it has when run alone on the thread's mapping.
C9_ConcurrentCalls ==
  /\ v = NewSignValidator(input)
  /\ \A t \in Threads : pc[t] = "returned" => result[t] = Alone(t)

\* A call returned a signature while another thread, holding a different
\* mapping, was in the middle of its own call.
C9_Witness ==
  \E t, u \in Threads :
    /\ t # u
    /\ pc[t] = "returned"
    /\ call[t].op = "GenerateSignature"
    /\ result[t].err = ErrNil
    /\ pc[u] \in {"copied", "filtered", "sorted", "built"}
    /\ heap[ParamsRef(t)] # heap[ParamsRef(u)]

====
